---- MODULE Spec2Model ----
(***************************************************************************)
(* ZKMock: a gate circuit lowered to R1CS and checked for satisfiability   *)
(* (circuit.rs, r1cs.rs), and a Merkle tree with authentication paths      *)
(* (merkle.rs).  Three specifications share this module:                   *)
(*   Spec        the Circuit and its proof file                            *)
(*   SpecR1CS    R1CS::add_constraints and the is_satisfied loop           *)
(*   SpecMerkle  MerkleTree::new and MerkleTree::merkle_path               *)
(***************************************************************************)
EXTENDS Integers, Sequences, FiniteSets

VARIABLES
  hash_function,  \* Circuit.hash_function: "None" or the kind of the boxed HashFunction
  inputs,         \* Circuit.inputs
  gates,          \* Circuit.gates
  file,           \* the proof file: [exists, bytes, by]
  ret,            \* outcome of the last Circuit call
  constraints,    \* R1CS.constraints
  apply_hash,     \* the closure handed to the last R1CS::is_satisfied (a hash kind)
  sat,            \* the last run of R1CS::is_satisfied: its result and what it evaluated
  tree,           \* the MerkleTree value: [built, root, leaves, hash_function]
  mret            \* outcome of the last MerkleTree call

circuitVars == <<hash_function, inputs, gates, file, ret>>
r1csVars    == <<constraints, apply_hash, sat>>
merkleVars  == <<tree, mret>>
vars        == <<hash_function, inputs, gates, file, ret,
                 constraints, apply_hash, sat, tree, mret>>

----------------------------------------------------------------------------
(* Bounds *)
MaxLeaves      == 8   \* longest leaf sequence handed to MerkleTree::new
MaxLeafVal     == 2   \* leaf values are 1..MaxLeafVal
MaxInputs      == 2   \* most inputs added to a Circuit
MaxGates       == 1   \* most gates added to a Circuit
MaxIdx         == 1   \* gate fields a, b, output range over 0..MaxIdx
MaxConstraints == 2   \* most constraints added to an R1CS

InputValues == {0, 1}                         \* values handed to add_input
Term == <<[index |-> 0, value |-> 1], 2>>     \* a (Variable, coefficient) pair
LinCombs == {<< >>, <<Term>>, <<Term, Term>>} \* the sides handed to add_constraints
OtherContents == {<<2>>, <<1, 0>>}           \* what another writer leaves in the file

----------------------------------------------------------------------------
(* The hashing capability (trait HashFunction, hash_functions.rs).         *)
(* "add" is the additive hash; "weighted" is a non-commutative one.        *)
HashKinds == {"add", "weighted"}

Hash(h, a, b) == IF h = "add" THEN a + b ELSE 2 * a + b

----------------------------------------------------------------------------
(* merkle.rs *)

\* NextLevel that hashes a lone last node with itself
NextLevel_dupLast(nodes, h) ==
  [i \in 1..((Len(nodes) + 1) \div 2) |->
     IF 2 * i <= Len(nodes) THEN Hash(h, nodes[2 * i - 1], nodes[2 * i])
                            ELSE Hash(h, nodes[2 * i - 1], nodes[2 * i - 1])]

\* nodes.chunks(2).map(...).collect(): a pair is hashed, a lone last node is
\* promoted unchanged.  Sequences are 1-based here, 0-based in the source.
NextLevel(nodes, h) ==
  [i \in 1..((Len(nodes) + 1) \div 2) |->
     IF 2 * i <= Len(nodes) THEN Hash(h, nodes[2 * i - 1], nodes[2 * i])
                            ELSE nodes[2 * i - 1]]

\* the same pairing as written a second time inside compute_root
RootLevel(nodes, h) ==
  [i \in 1..((Len(nodes) + 1) \div 2) |->
     IF 2 * i <= Len(nodes) THEN Hash(h, nodes[2 * i - 1], nodes[2 * i])
                            ELSE nodes[2 * i - 1]]

RECURSIVE ReduceLevels(_, _)
ReduceLevels(nodes, h) ==
  IF Len(nodes) > 1 THEN ReduceLevels(RootLevel(nodes, h), h) ELSE nodes

\* compute_root that answers 0 for no leaves
compute_root_emptyZero(leaves, h) ==
  LET nodes == ReduceLevels(leaves, h)
  IN  IF Len(nodes) = 0 THEN [panic |-> FALSE, value |-> 0]
                        ELSE [panic |-> FALSE, value |-> nodes[1]]

\* MerkleTree::compute_root: nodes[0] of an empty vector panics.
compute_root(leaves, h) ==
  LET nodes == ReduceLevels(leaves, h)
  IN  IF Len(nodes) = 0 THEN [panic |-> TRUE, value |-> 0]
                        ELSE [panic |-> FALSE, value |-> nodes[1]]

\* PathEntry with the flag taken from the wrong parity
PathEntry_flagInverted(nodes, current_index) ==
  LET sibling_index == IF current_index % 2 = 0 THEN current_index + 1
                                                ELSE current_index - 1
  IN  IF sibling_index < Len(nodes)
      THEN << <<nodes[sibling_index + 1], current_index % 2 = 1>> >>
      ELSE << >>

\* PathEntry that pairs an unpaired last node with itself
PathEntry_dupLast(nodes, current_index) ==
  LET sibling_index == IF current_index % 2 = 0 THEN current_index + 1
                                                ELSE current_index - 1
  IN  IF sibling_index < Len(nodes)
      THEN << <<nodes[sibling_index + 1], current_index % 2 = 0>> >>
      ELSE IF current_index < Len(nodes)
           THEN << <<nodes[current_index + 1], TRUE>> >>
           ELSE << >>

\* The entry merkle_path pushes at one level.
PathEntry(nodes, current_index) ==
  LET sibling_index == IF current_index % 2 = 0 THEN current_index + 1
                                                ELSE current_index - 1
  IN  IF sibling_index < Len(nodes)
      THEN << <<nodes[sibling_index + 1], current_index % 2 = 0>> >>
      ELSE << >>

RECURSIVE PathLoop(_, _, _, _)
PathLoop(nodes, current_index, path, h) ==
  IF Len(nodes) > 1
  THEN PathLoop(NextLevel(nodes, h), current_index \div 2,
                path \o PathEntry(nodes, current_index), h)
  ELSE path

\* MerkleTree::merkle_path: no statement of it indexes with `index` itself,
\* so it returns for every index.
merkle_path(leaves, index, h) ==
  [panic |-> FALSE, value |-> PathLoop(leaves, index, << >>, h)]

NoTree == [built |-> FALSE, root |-> 0, leaves |-> << >>, hash_function |-> "add"]
NoCall == [op |-> "none", leaves |-> << >>, index |-> 0, panic |-> FALSE, value |-> << >>]

RECURSIVE SeqsUpTo(_, _)
SeqsUpTo(S, n) ==
  IF n = 0 THEN {<< >>}
  ELSE LET shorter == SeqsUpTo(S, n - 1)
       IN  shorter \cup {Append(s, x) : s \in {t \in shorter : Len(t) = n - 1}, x \in S}

Ramp(n) == [i \in 1..n |-> i]

\* Leaf sequences handed to MerkleTree::new: every sequence over
\* 1..MaxLeafVal, and the sequences 1,2,..,n of distinct leaves.
LeafInputs == SeqsUpTo(1..MaxLeafVal, MaxLeaves) \cup {Ramp(n) : n \in 0..MaxLeaves}

\* MerkleTree::new
MerkleTree_new(leaves, h) ==
  /\ LET root == compute_root(leaves, h)
     IN  /\ tree' = IF root.panic THEN tree
                    ELSE [built |-> TRUE, root |-> root.value,
                          leaves |-> leaves, hash_function |-> h]
         /\ mret' = [op |-> "new", leaves |-> leaves, index |-> 0,
                     panic |-> root.panic, value |-> << >>]
  /\ UNCHANGED <<circuitVars, r1csVars>>

\* a call of MerkleTree::merkle_path on the built tree (&self: the tree is
\* left as it is, so one call after construction reaches every outcome)
MerklePath(index) ==
  /\ tree.built /\ mret.op = "new"
  /\ LET r == merkle_path(tree.leaves, index, tree.hash_function)
     IN  mret' = [op |-> "merkle_path", leaves |-> tree.leaves, index |-> index,
                  panic |-> r.panic, value |-> r.value]
  /\ UNCHANGED <<tree, circuitVars, r1csVars>>

InitMerkle ==
  /\ tree = NoTree
  /\ mret = NoCall
  /\ hash_function = "None" /\ inputs = << >> /\ gates = << >>
  /\ file = [exists |-> FALSE, bytes |-> << >>, by |-> "none", is_valid |-> FALSE]
  /\ ret = [op |-> "build", outcome |-> "ok", value |-> FALSE]
  /\ constraints = << >> /\ apply_hash = "add"
  /\ sat = [called |-> FALSE, panic |-> FALSE, value |-> FALSE,
            evaluated |-> 0, calls |-> << >>]

NextMerkle ==
  \/ /\ mret.op = "none"      \* the constructor runs once
     /\ \E leaves \in LeafInputs, h \in HashKinds : MerkleTree_new(leaves, h)
  \/ \E index \in 0..(MaxLeaves + 1) : MerklePath(index)

SpecMerkle == InitMerkle /\ [][NextMerkle]_vars

----------------------------------------------------------------------------
(* r1cs.rs *)

Operations == {"Add", "Mul", "Hash"}

\* constraint.left.iter().map(|(var, coeff)| &var.value * coeff).sum()
RECURSIVE LinValue(_)
LinValue(terms) ==
  IF terms = << >> THEN 0
  ELSE Head(terms)[1].value * Head(terms)[2] + LinValue(Tail(terms))

\* The match on constraint.operation: "ok" when the check passes, "fail" when
\* it returns false, "panic" when the closure has no hash function to call.
CheckConstraint(c, h) ==
  LET left_value   == LinValue(c.left)
      right_value  == LinValue(c.right)
      output_value == LinValue(c.output)
  IN  CASE c.operation = "Add" ->
             IF left_value + right_value # output_value THEN "fail" ELSE "ok"
        [] c.operation = "Mul" ->
             IF left_value * right_value # output_value THEN "fail" ELSE "ok"
        [] c.operation = "Hash" ->
             IF h = "None" THEN "panic"
             ELSE IF Hash(h, left_value, right_value) # output_value THEN "fail" ELSE "ok"

\* SatLoop that remembers a failure and keeps evaluating
RECURSIVE SatLoop_noStop(_, _, _, _)
SatLoop_noStop(cs, h, k, calls) ==
  IF k > Len(cs)
  THEN [panic |-> FALSE, value |-> TRUE, evaluated |-> Len(cs), calls |-> calls]
  ELSE LET r      == CheckConstraint(cs[k], h)
           calls2 == IF cs[k].operation = "Hash" /\ h # "None"
                     THEN Append(calls, k) ELSE calls
           rest   == SatLoop_noStop(cs, h, k + 1, calls2)
       IN  CASE r = "panic" ->
                  [panic |-> TRUE, value |-> FALSE, evaluated |-> k, calls |-> calls2]
             [] r = "fail" ->
                  [panic |-> rest.panic, value |-> FALSE,
                   evaluated |-> rest.evaluated, calls |-> rest.calls]
             [] r = "ok" -> rest

\* The for loop of is_satisfied from constraint k (1-based) on.  `calls` is
\* the list of constraints for which apply_hash has been invoked.
RECURSIVE SatLoop(_, _, _, _)
SatLoop(cs, h, k, calls) ==
  IF k > Len(cs)
  THEN [panic |-> FALSE, value |-> TRUE, evaluated |-> Len(cs), calls |-> calls]
  ELSE LET r      == CheckConstraint(cs[k], h)
           calls2 == IF cs[k].operation = "Hash" /\ h # "None"
                     THEN Append(calls, k) ELSE calls
       IN  CASE r = "panic" ->
                  [panic |-> TRUE, value |-> FALSE, evaluated |-> k, calls |-> calls2]
             [] r = "fail" ->
                  [panic |-> FALSE, value |-> FALSE, evaluated |-> k, calls |-> calls2]
             [] r = "ok" -> SatLoop(cs, h, k + 1, calls2)

\* R1CS::is_satisfied
is_satisfied(cs, h) == SatLoop(cs, h, 1, << >>)

\* the closures is_satisfied is called with
ClosureKinds == {"weighted"}

NoRun == [called |-> FALSE, panic |-> FALSE, value |-> FALSE,
          evaluated |-> 0, calls |-> << >>]

\* R1CS::add_constraints
add_constraints(left, right, output, operation) ==
  /\ Len(constraints) < MaxConstraints
  /\ constraints' = Append(constraints,
        [left |-> left, right |-> right, output |-> output, operation |-> operation])
  /\ sat' = NoRun
  /\ apply_hash' = "add"
  /\ UNCHANGED <<circuitVars, merkleVars>>

\* a call of R1CS::is_satisfied with the closure h (&self: the constraints
\* are left as they are, so one call per constraint list reaches every outcome)
IsSatisfiedCall(h) ==
  /\ ~sat.called
  /\ LET r == is_satisfied(constraints, h)
     IN  sat' = [called |-> TRUE, panic |-> r.panic, value |-> r.value,
                 evaluated |-> r.evaluated, calls |-> r.calls]
  /\ apply_hash' = h
  /\ UNCHANGED <<constraints, circuitVars, merkleVars>>

NoFile == [exists |-> FALSE, bytes |-> << >>, by |-> "none", is_valid |-> FALSE]
NewRet == [op |-> "build", outcome |-> "ok", value |-> FALSE]

InitR1CS ==
  /\ constraints = << >>
  /\ apply_hash = "add"
  /\ sat = NoRun
  /\ hash_function = "None" /\ inputs = << >> /\ gates = << >>
  /\ file = NoFile /\ ret = NewRet
  /\ tree = NoTree /\ mret = NoCall

NextR1CS ==
  \/ \E left \in LinCombs, right \in LinCombs, output \in LinCombs,
        operation \in Operations : add_constraints(left, right, output, operation)
  \/ \E h \in ClosureKinds : IsSatisfiedCall(h)

SpecR1CS == InitR1CS /\ [][NextR1CS]_vars

----------------------------------------------------------------------------
(* circuit.rs *)

GateKinds == {"Add", "Mul", "Hash"}
Gates == [kind : GateKinds, a : 0..MaxIdx, b : 0..MaxIdx, output : 0..MaxIdx]

Var(i, v) == [index |-> i, value |-> v]

\* Circuit::apply_hash
circuit_apply_hash(hf, a, b) ==
  IF hf # "None" THEN [panic |-> FALSE, value |-> Hash(hf, a, b)]
                 ELSE [panic |-> TRUE, value |-> 0]

\* TranslateGate whose Mul arm emits an Add constraint
TranslateGate_mulAsAdd(g, ins, hf) ==
  LET n == Len(ins)
  IN  IF g.a >= n \/ g.b >= n \/ g.output >= n
      THEN [panic |-> "index"]
      ELSE [panic |-> "none",
            constraint |-> [left      |-> << <<Var(g.a, ins[g.a + 1]), 1>> >>,
                            right     |-> << <<Var(g.b, ins[g.b + 1]), 1>> >>,
                            output    |-> << <<Var(g.output, ins[g.output + 1]), 1>> >>,
                            operation |-> "Add"]]

\* One arm of the match in generate_proof: the constraint a gate becomes, or
\* the panic the arm ends in.  self.inputs[i] panics for i >= inputs.len().
\* The Hash arm reads inputs[a] and inputs[b] only; the value of its output
\* term is hash_result.
TranslateGate(g, ins, hf) ==
  LET n == Len(ins)
  IN  IF g.kind \in {"Add", "Mul"}
      THEN IF g.a >= n \/ g.b >= n \/ g.output >= n
           THEN [panic |-> "index"]
           ELSE [panic |-> "none",
                 constraint |-> [left      |-> << <<Var(g.a, ins[g.a + 1]), 1>> >>,
                                 right     |-> << <<Var(g.b, ins[g.b + 1]), 1>> >>,
                                 output    |-> << <<Var(g.output, ins[g.output + 1]), 1>> >>,
                                 operation |-> g.kind]]
      ELSE IF g.a >= n \/ g.b >= n
           THEN [panic |-> "index"]
           ELSE LET hash_result == circuit_apply_hash(hf, ins[g.a + 1], ins[g.b + 1])
                IN  IF hash_result.panic
                    THEN [panic |-> "config"]
                    ELSE [panic |-> "none",
                          constraint |-> [left      |-> << <<Var(g.a, ins[g.a + 1]), 1>> >>,
                                          right     |-> << <<Var(g.b, ins[g.b + 1]), 1>> >>,
                                          output    |-> << <<Var(g.output, hash_result.value), 1>> >>,
                                          operation |-> "Hash"]]

\* The loop over self.gates: stops at the first arm that panics.
RECURSIVE Translate(_, _, _, _)
Translate(gs, ins, hf, acc) ==
  IF gs = << >> THEN [panic |-> "none", constraints |-> acc]
  ELSE LET t == TranslateGate(Head(gs), ins, hf)
       IN  IF t.panic # "none" THEN [panic |-> t.panic, constraints |-> acc]
           ELSE Translate(Tail(gs), ins, hf, Append(acc, t.constraint))

\* a writer that always reports a valid proof
BoolAsU8_alwaysOne(b) == 1

\* is_valid as u8
BoolAsU8(b) == IF b THEN 1 ELSE 0

\* proof_data[0] == 1
U8IsValid(byte) == byte = 1

\* Option<Box<dyn HashFunction>>
CircuitHashes == {"None", "weighted"}

\* Circuit::new
InitCircuit ==
  /\ hash_function \in CircuitHashes
  /\ inputs = << >> /\ gates = << >>
  /\ file = NoFile /\ ret = NewRet
  /\ constraints = << >> /\ apply_hash = "add" /\ sat = NoRun
  /\ tree = NoTree /\ mret = NoCall

\* The Build phase lasts until the first generate_proof or verify_proof;
\* the circuit is not mutated after evaluation begins.
Building == ret.op = "build"

\* Circuit::add_input
add_input(input) ==
  /\ Building
  /\ Len(inputs) < MaxInputs
  /\ inputs' = Append(inputs, input)
  /\ ret' = ret
  /\ UNCHANGED <<hash_function, gates, file, r1csVars, merkleVars>>

\* Circuit::add_gate
add_gate(gate) ==
  /\ Building
  /\ Len(gates) < MaxGates
  /\ gates' = Append(gates, gate)
  /\ ret' = ret
  /\ UNCHANGED <<hash_function, inputs, file, r1csVars, merkleVars>>

\* Circuit::generate_proof on the one proof file
generate_proof ==
  /\ LET t == Translate(gates, inputs, hash_function, << >>)
         s == is_satisfied(t.constraints, hash_function)
     IN  IF t.panic # "none"
         THEN /\ ret' = [op |-> "generate_proof", outcome |-> t.panic, value |-> FALSE]
              /\ file' = file
         ELSE IF s.panic
         THEN /\ ret' = [op |-> "generate_proof", outcome |-> "config", value |-> FALSE]
              /\ file' = file
         ELSE /\ ret' = [op |-> "generate_proof", outcome |-> "ok", value |-> s.value]
              /\ file' = [exists |-> TRUE, bytes |-> <<BoolAsU8(s.value)>>,
                          by |-> "generate_proof", is_valid |-> s.value]
  /\ UNCHANGED <<hash_function, inputs, gates, r1csVars, merkleVars>>

\* Circuit::verify_proof on the one proof file
verify_proof ==
  /\ ret' = IF ~file.exists
            THEN [op |-> "verify_proof", outcome |-> "io", value |-> FALSE]
            ELSE IF Len(file.bytes) # 1
            THEN [op |-> "verify_proof", outcome |-> "format", value |-> FALSE]
            ELSE [op |-> "verify_proof", outcome |-> "ok", value |-> U8IsValid(file.bytes[1])]
  /\ UNCHANGED <<hash_function, inputs, gates, file, r1csVars, merkleVars>>

\* Some other writer replaces the content of the proof file.
OtherWrite(bytes) ==
  /\ ret.op = "generate_proof" /\ ret.outcome = "ok"
  /\ file' = [exists |-> TRUE, bytes |-> bytes, by |-> "other", is_valid |-> FALSE]
  /\ ret' = [op |-> "other_write", outcome |-> "ok", value |-> FALSE]
  /\ UNCHANGED <<hash_function, inputs, gates, r1csVars, merkleVars>>

Next ==
  \/ \E input \in InputValues : add_input(input)
  \/ \E gate \in Gates : add_gate(gate)
  \/ generate_proof
  \/ verify_proof
  \/ \E bytes \in OtherContents : OtherWrite(bytes)

Spec == InitCircuit /\ [][Next]_vars

----------------------------------------------------------------------------
(* Properties of the Merkle tree *)

\* A verifier's recomputation: fold the path upward from the leaf.
RECURSIVE FoldPath(_, _, _)
FoldPath(current, path, h) ==
  IF path = << >> THEN current
  ELSE LET sibling == Head(path)[1]
           is_left == Head(path)[2]
       IN  FoldPath(IF is_left THEN Hash(h, current, sibling)
                               ELSE Hash(h, sibling, current),
                    Tail(path), h)

PathReturned == mret.op = "merkle_path" /\ ~mret.panic
LeafCount    == Len(mret.leaves)
InRangeCall  == mret.op = "merkle_path" /\ mret.index < LeafCount
IsPowerOfTwo(n) == \E k \in 0..n : 2 ^ k = n
Log2(n)      == CHOOSE k \in 0..n : 2 ^ k = n

\* C4: for n = 2^k leaves and every leaf index i < n, folding merkle_path(i)
\* from leaves[i] gives the root and the path has exactly k entries; leaves
\* [1,2,3,4] under the additive hash give root 10 and
\* merkle_path(0) = [(2,true),(7,true)].
C4_PowerOfTwoPathValid ==
  /\ (InRangeCall /\ IsPowerOfTwo(LeafCount)) =>
        /\ PathReturned
        /\ FoldPath(mret.leaves[mret.index + 1], mret.value, tree.hash_function) = tree.root
        /\ Len(mret.value) = Log2(LeafCount)
  /\ (tree.built /\ tree.leaves = <<1, 2, 3, 4>> /\ tree.hash_function = "add") =>
        /\ tree.root = 10
        /\ (mret.op = "merkle_path" /\ mret.index = 0) =>
              mret.value = << <<2, TRUE>>, <<7, TRUE>> >>

C4_Witness ==
  /\ PathReturned /\ mret.leaves = <<1, 2, 3, 4>> /\ mret.index = 0
  /\ tree.hash_function = "add" /\ tree.root = 10
  /\ mret.value = << <<2, TRUE>>, <<7, TRUE>> >>

C4_WitnessEight ==
  /\ PathReturned /\ LeafCount = 8 /\ mret.index = 5
  /\ tree.hash_function = "weighted" /\ Len(mret.value) = 3

\* C5: merkle_path(index) ends in a fatal error for every
\* index >= leaves.len() and never returns a path for such an index.
C5_OutOfRangeIsFatal ==
  (mret.op = "merkle_path" /\ mret.index >= LeafCount) => mret.panic

\* C6: MerkleTree::new fails fatally on an empty leaf sequence and builds no
\* tree; on every non-empty sequence it succeeds, keeps the leaves and has
\* the root computed (the leaf itself for one leaf, hash(l0,l1) for two).
C6_EmptyLeavesFatal ==
  /\ tree.built => tree.leaves # << >>
  /\ mret.op = "new" =>
        /\ mret.panic <=> (mret.leaves = << >>)
        /\ mret.panic => ~tree.built
        /\ ~mret.panic =>
              /\ tree.built /\ tree.leaves = mret.leaves
              /\ Len(tree.leaves) = 1 => tree.root = tree.leaves[1]
              /\ Len(tree.leaves) = 2 =>
                    tree.root = Hash(tree.hash_function, tree.leaves[1], tree.leaves[2])

C6_Witness == mret.op = "new" /\ mret.leaves = << >> /\ mret.panic /\ ~tree.built

C6_WitnessBuilt == mret.op = "new" /\ Len(mret.leaves) = 2 /\ tree.built

\* Width of level l above n leaves, and the position of leaf i's ancestor there.
Width(n, l)    == (n + 2 ^ l - 1) \div (2 ^ l)
Ancestor(i, l) == i \div (2 ^ l)
Levels(n)      == Cardinality({l \in 0..n : Width(n, l) > 1})
Unpaired(n, i, l) == Ancestor(i, l) % 2 = 0 /\ Ancestor(i, l) = Width(n, l) - 1
PairedLevels(n, i) ==
  SelectSeq([j \in 1..Levels(n) |-> j - 1], LAMBDA l : ~Unpaired(n, i, l))

\* C9: a level where the current node is the unpaired last node contributes
\* no entry, every entry's flag is true exactly when the current index at its
\* level is even; leaves [1,2,3] give root hash(hash(1,2),3),
\* merkle_path(2) = [(hash(1,2),false)], merkle_path(0) = [(2,true),(3,true)].
C9_OddLevelPromotion ==
  /\ InRangeCall =>
        LET lv == PairedLevels(LeafCount, mret.index)
        IN  /\ PathReturned
            /\ Len(mret.value) = Len(lv)
            /\ \A j \in 1..Len(lv) :
                  mret.value[j][2] = (Ancestor(mret.index, lv[j]) % 2 = 0)
  /\ (tree.built /\ tree.leaves = <<1, 2, 3>>) =>
        LET h == tree.hash_function
        IN  /\ tree.root = Hash(h, Hash(h, 1, 2), 3)
            /\ (mret.op = "merkle_path" /\ mret.index = 2) =>
                  mret.value = << <<Hash(h, 1, 2), FALSE>> >>
            /\ (mret.op = "merkle_path" /\ mret.index = 0) =>
                  mret.value = << <<2, TRUE>>, <<3, TRUE>> >>

C9_Witness ==
  /\ PathReturned /\ mret.leaves = <<1, 2, 3>> /\ mret.index = 2
  /\ Len(mret.value) = 1 /\ mret.value[1][2] = FALSE

\* C10: for every leaf count n >= 1 and every index i < n, folding
\* merkle_path(i) from leaves[i] gives the root computed at construction;
\* for n = 1 the path is empty and the root is the single leaf.
C10_PathValidAnyCount ==
  InRangeCall =>
     /\ PathReturned
     /\ FoldPath(mret.leaves[mret.index + 1], mret.value, tree.hash_function) = tree.root
     /\ LeafCount = 1 => (mret.value = << >> /\ tree.root = mret.leaves[1])

C10_Witness ==
  /\ PathReturned /\ LeafCount = 5 /\ mret.index = 4
  /\ tree.hash_function = "weighted" /\ Len(mret.value) = 1

----------------------------------------------------------------------------
(* Properties of R1CS::is_satisfied *)

\* The sum of value * coefficient over the first n terms of a combination.
RECURSIVE WeightedSum(_, _)
WeightedSum(terms, n) ==
  IF n = 0 THEN 0 ELSE WeightedSum(terms, n - 1) + terms[n][1].value * terms[n][2]

SideValue(terms) == WeightedSum(terms, Len(terms))

Passes(c, h) ==
  CASE c.operation = "Add"  -> SideValue(c.left) + SideValue(c.right) = SideValue(c.output)
    [] c.operation = "Mul"  -> SideValue(c.left) * SideValue(c.right) = SideValue(c.output)
    [] c.operation = "Hash" -> Hash(h, SideValue(c.left), SideValue(c.right)) = SideValue(c.output)

FailingSet == {k \in 1..Len(constraints) : ~Passes(constraints[k], apply_hash)}
Least(S) == CHOOSE k \in S : \A j \in S : k <= j

\* C8: is_satisfied is false exactly when some constraint fails its
\* Add/Mul/Hash check on the sums of value * coefficient, true otherwise (also
\* for zero constraints); it evaluates the constraints in insertion order up
\* to and including the first failing one and none after it, so the hash is
\* invoked exactly for the Hash constraints up to that point.
C8_ShortCircuit ==
  sat.called =>
     LET Failing == FailingSet
     IN
     /\ ~sat.panic
     /\ (sat.value = FALSE) <=> (Failing # {})
     /\ sat.evaluated = IF Failing = {} THEN Len(constraints) ELSE Least(Failing)
     /\ \A k \in 1..Len(constraints) :
           (\E j \in 1..Len(sat.calls) : sat.calls[j] = k)
              <=> (constraints[k].operation = "Hash" /\ k <= sat.evaluated)
     /\ \A i, j \in 1..Len(sat.calls) : i < j => sat.calls[i] < sat.calls[j]

C8_Witness ==
  /\ sat.called /\ Len(constraints) = 2
  /\ constraints[1].operation = "Mul" /\ ~Passes(constraints[1], apply_hash)
  /\ constraints[2].operation = "Hash"
  /\ sat.value = FALSE /\ sat.evaluated = 1 /\ sat.calls = << >>

----------------------------------------------------------------------------
(* Properties of the Circuit *)

Generated == ret.op = "generate_proof"
InRange(g) == g.a < Len(inputs) /\ g.b < Len(inputs) /\ g.output < Len(inputs)
GateSet == {gates[i] : i \in 1..Len(gates)}

GateHolds(g) ==
  CASE g.kind = "Add"  -> inputs[g.a + 1] + inputs[g.b + 1] = inputs[g.output + 1]
    [] g.kind = "Mul"  -> inputs[g.a + 1] * inputs[g.b + 1] = inputs[g.output + 1]
    [] g.kind = "Hash" ->
         Hash(hash_function, inputs[g.a + 1], inputs[g.b + 1]) = inputs[g.output + 1]

VerdictWritten(b) ==
  /\ ret.outcome = "ok"
  /\ file.exists /\ file.by = "generate_proof" /\ file.bytes = <<b>>

\* C1: for a circuit of Add and Mul gates with all indices in range,
\* generate_proof persists verdict 1 exactly when every gate's equality holds
\* on the inputs, and verdict 0 as soon as one equality is broken.
C1_AddMulVerdict ==
  (Generated /\ \A g \in GateSet : g.kind \in {"Add", "Mul"} /\ InRange(g)) =>
     IF \A g \in GateSet : GateHolds(g) THEN VerdictWritten(1) ELSE VerdictWritten(0)

C1_Witness ==
  /\ Generated /\ inputs = <<1, 1>>
  /\ gates = << [kind |-> "Mul", a |-> 0, b |-> 1, output |-> 1] >>
  /\ VerdictWritten(1)

C1_WitnessBroken ==
  /\ Generated /\ inputs = <<1, 1>>
  /\ gates = << [kind |-> "Add", a |-> 0, b |-> 1, output |-> 1] >>
  /\ VerdictWritten(0)

\* C2: with a hash capability and a gate Hash(a,b,out) with indices in range,
\* the verdict of generate_proof is true when inputs[out] equals
\* hash(inputs[a], inputs[b]) and false for every other inputs[out].
C2_HashOutputChecked ==
  (/\ Generated /\ hash_function # "None"
   /\ Len(gates) = 1 /\ gates[1].kind = "Hash" /\ InRange(gates[1])) =>
     /\ ret.outcome = "ok"
     /\ ret.value <=> GateHolds(gates[1])

\* C3: a verify_proof that follows a generate_proof on the same file, with no
\* other write in between, returns the boolean is_satisfied computed in that
\* generate_proof, for true and for false.
C3_VerdictRoundTrip ==
  (ret.op = "verify_proof" /\ file.by = "generate_proof") =>
     /\ ret.outcome = "ok"
     /\ ret.value = file.is_valid

C3_Witness ==
  /\ ret.op = "verify_proof" /\ file.by = "generate_proof"
  /\ file.is_valid = FALSE /\ ret.value = FALSE /\ Len(gates) > 0

C3_WitnessTrue ==
  /\ ret.op = "verify_proof" /\ file.by = "generate_proof"
  /\ file.is_valid = TRUE /\ ret.value = TRUE /\ Len(gates) > 0

\* C7: add_gate accepts any indices; generate_proof ends in a fatal error
\* whenever some gate references an index a, b or out >= inputs.len(), and
\* then writes no verdict.  (Any fatal outcome is accepted here, so a
\* violation is a verdict written for a gate with an index out of range.)
C7_IndicesCheckedAtTranslation ==
  (Generated /\ \E g \in GateSet : ~InRange(g)) =>
     /\ ret.outcome \in {"index", "config"}
     /\ ~file.exists

====
